---------------------------- MODULE Spec2Model ----------------------------
(***************************************************************************)
(* Model of cli/lib/extract.js: the import of one release's documentation  *)
(* (unpackRelease and the functions it calls).                             *)
(*                                                                         *)
(* Strings are sequences of tokens.  The token "/" is the path separator,  *)
(* the token "\\" the backslash, ">" the greater-than sign; every other    *)
(* token stands for a fixed run of ordinary characters.  String            *)
(* concatenation is \o, so a url such as /cli/v9 is <<"/","cli","/","v9">>.*)
(***************************************************************************)
EXTENDS Naturals, Sequences, FiniteSets, TLC

\* ------------------------------------------------------------------------
\* Bounds of the model
\* ------------------------------------------------------------------------

\* longest archive entry path, in segments, of the filter specification
MaxParts == 5

\* largest number of nodes of a navigation description (rewrite specification)
MaxNodes == 3

\* longest changelog text, in tokens (escape specification)
MaxText == 5

\* ------------------------------------------------------------------------
\* Strings and paths (node's path module, posix flavour)
\* ------------------------------------------------------------------------

SLASH == "/"

Last(s) == s[Len(s)]

Front(s) == SubSeq(s, 1, Len(s) - 1)

RECURSIVE SplitFrom(_, _, _)
SplitFrom(s, i, cur) ==
  IF i > Len(s) THEN <<cur>>
  ELSE IF s[i] = SLASH THEN <<cur>> \o SplitFrom(s, i + 1, <<>>)
  ELSE SplitFrom(s, i + 1, Append(cur, s[i]))

\* String.prototype.split on the separator: "" splits to one empty segment
Split(s) == SplitFrom(s, 1, <<>>)

RECURSIVE Glue(_)
\* Array.prototype.join("/")
Glue(parts) ==
  IF parts = <<>> THEN <<>>
  ELSE IF Len(parts) = 1 THEN parts[1]
  ELSE parts[1] \o <<SLASH>> \o Glue(Tail(parts))

RECURSIVE NormalizeParts(_, _, _)
\* path.normalize's walk over the segments: "" and "." vanish, ".." pops
NormalizeParts(parts, acc, abs) ==
  IF parts = <<>> THEN acc
  ELSE LET p == Head(parts) IN
    IF p = <<>> \/ p = <<".">> THEN NormalizeParts(Tail(parts), acc, abs)
    ELSE IF p = <<"..">> THEN
      IF acc # <<>> /\ Last(acc) # <<"..">>
        THEN NormalizeParts(Tail(parts), Front(acc), abs)
      ELSE IF abs THEN NormalizeParts(Tail(parts), acc, abs)
      ELSE NormalizeParts(Tail(parts), Append(acc, p), abs)
    ELSE NormalizeParts(Tail(parts), Append(acc, p), abs)

\* path.posix.normalize
Normalize(s) ==
  IF s = <<>> THEN <<".">>
  ELSE LET abs   == s[1] = SLASH
           trail == Last(s) = SLASH
           body  == Glue(NormalizeParts(Split(s), <<>>, abs))
       IN IF body = <<>>
            THEN (IF abs THEN <<SLASH>> ELSE IF trail THEN <<".", SLASH>> ELSE <<".">>)
            ELSE (IF abs THEN <<SLASH>> ELSE <<>>) \o body
                 \o (IF trail THEN <<SLASH>> ELSE <<>>)

\* path.join(...args): the non-empty arguments glued, then normalized
Join(args) ==
  LET kept == SelectSeq(args, LAMBDA a : a # <<>>)
  IN IF kept = <<>> THEN <<".">> ELSE Normalize(Glue(kept))

RECURSIVE StripTrailing(_)
StripTrailing(s) ==
  IF Len(s) > 1 /\ Last(s) = SLASH THEN StripTrailing(Front(s)) ELSE s

RECURSIVE LastSlash(_, _)
\* index of the last "/" at or before position i, 0 when there is none
LastSlash(s, i) ==
  IF i = 0 THEN 0 ELSE IF s[i] = SLASH THEN i ELSE LastSlash(s, i - 1)

\* path.posix.dirname
Dirname(s) ==
  IF s = <<>> THEN <<".">>
  ELSE LET t == StripTrailing(s)
           k == LastSlash(t, Len(t))
       IN IF t = <<SLASH>> THEN <<SLASH>>
          ELSE IF k = 0 THEN <<".">>
          ELSE IF k = 1 THEN <<SLASH>>
          ELSE IF k = 2 /\ t[1] = SLASH THEN <<SLASH, SLASH>>
          ELSE SubSeq(t, 1, k - 1)

\* path.posix.basename
Basename(s) ==
  LET t == StripTrailing(s)
      k == LastSlash(t, Len(t))
  IN IF t = <<SLASH>> THEN <<>> ELSE SubSeq(t, k + 1, Len(t))

\* ------------------------------------------------------------------------
\* Data of one import
\* ------------------------------------------------------------------------

Unset == "unset"

Ids == {"sha1", "sha2"}

\* release.url and release.urlPrefix of the release being imported
RelUrl == <<SLASH, "cli", SLASH, "v9">>

UrlPrefix == <<"v9">>

\* the caller's release records: resolved is the identifier stored by the
\* previous import; spec, src and nav are not set; the manifest of a release
\* taken from its branch is not read, and is held fixed
Releases ==
  {r \in [prerelease : BOOLEAN, useBranch : BOOLEAN, resolved : {"sha1"},
          manifest : [_resolved : Ids, _from : {"npm@9"}],
          spec : {Unset}, src : {Unset}, nav : {Unset}] :
     r.useBranch => r.manifest._resolved = "sha1"}

Options == [force : BOOLEAN, prerelease : BOOLEAN]

Stale == <<"content", SLASH, "v9", SLASH, "stale.md">>

\* the release's output directory before the import: missing, or left by an
\* earlier run
InitialFs ==
  {[exists |-> FALSE, files |-> {}, dirs |-> {}],
   [exists |-> TRUE, files |-> {Stale}, dirs |-> {}]}

\* ------------------------------------------------------------------------
\* resolveRelease
\* ------------------------------------------------------------------------

SkipPrerelease_unlessForced(r, o) == r.prerelease /\ ~o.prerelease /\ ~o.force

\* release.prerelease && !prerelease
SkipPrerelease(r, o) == r.prerelease /\ ~o.prerelease

SkipResolved_never(resolved, current, o) == FALSE

SkipResolved_ignoresForce(resolved, current, o) == resolved = current

\* release.resolved === current && !force
SkipResolved(resolved, current, o) == resolved = current /\ ~o.force

\* ------------------------------------------------------------------------
\* Navigation trees and getNav
\* ------------------------------------------------------------------------

\* a children field: undefined (absent), null, or an array of nodes
Undef == [tag |-> "undefined", items |-> <<>>]

Null == [tag |-> "null", items |-> <<>>]

Arr(nodes) == [tag |-> "array", items |-> nodes]

Node(t, u, c) == [title |-> t, url |-> u, description |-> <<>>, children |-> c]

RECURSIVE rewriteUrls_shallow(_, _)
rewriteUrls_shallow(nodes, url) ==
  IF nodes.tag # "array" THEN Undef
  ELSE Arr([i \in 1..Len(nodes.items) |->
             [nodes.items[i] EXCEPT !.url = url \o @]])

RECURSIVE rewriteUrls(_, _)
\* nodes?.map((n) => { n.url = release.url + n.url;
\*                     n.children = rewriteUrls(n.children); return n })
rewriteUrls(nodes, url) ==
  IF nodes.tag # "array" THEN Undef
  ELSE Arr([i \in 1..Len(nodes.items) |->
             [nodes.items[i] EXCEPT !.url = url \o @,
                                    !.children = rewriteUrls(@, url)]])

\* getNav's result for the parsed description doc found at path
getNav(path, doc, url) == [path |-> path, children |-> rewriteUrls(doc, url)]

\* ------------------------------------------------------------------------
\* unpackTarball: the filter and the strip handed to tar.x
\* ------------------------------------------------------------------------

\* const strip = 1
Strip == 1

Min(a, b) == IF a < b THEN a ELSE b

\* Array.prototype.slice(from, to) with 0-based bounds, clamped to the array
Slice(s, from, to) ==
  IF from >= Min(to, Len(s)) THEN <<>> ELSE SubSeq(s, from + 1, Min(to, Len(s)))

TarFilter_noWrapper(path, dir) ==
  LET dirParts    == Split(dir)
      pathParts   == Split(path)
      prefixParts == Slice(pathParts, 0, Len(dirParts))
  IN Join(prefixParts) = Join(dirParts)

\* filter: (path) => join(...pathParts.slice(strip, dirParts.length + strip))
\*                   === join(...dirParts)
TarFilter(path, dir) ==
  LET dirParts    == Split(dir)
      pathParts   == Split(path)
      prefixParts == Slice(pathParts, Strip, Len(dirParts) + Strip)
  IN Join(prefixParts) = Join(dirParts)

\* strip: dirParts.length + strip
TarStripCount(dir) == Len(Split(dir)) + Strip

\* tar's strip option: the path without its first n segments
TarStrip(path, n) == Glue(Slice(Split(path), n, Len(Split(path))))

\* what one archive entry adds to result: its stripped path when the filter
\* lets it through, nothing otherwise
TarExtract(path, dir) ==
  IF TarFilter(path, dir) THEN <<TarStrip(path, TarStripCount(dir))>> ELSE <<>>

\* ------------------------------------------------------------------------
\* writeChangelog: the escape of ">" and the navigation leaf
\* ------------------------------------------------------------------------

BSL == "\\"

GT == ">"

RECURSIVE EscapeFrom(_, _)
\* the scan of String.prototype.replace with a global pattern: a match at i
\* consumes s[i] and s[i+1], and the search resumes after it
EscapeFrom(s, i) ==
  IF i > Len(s) THEN <<>>
  ELSE IF i < Len(s) /\ s[i] # BSL /\ s[i + 1] = GT
    THEN <<s[i], BSL, GT>> \o EscapeFrom(s, i + 2)
  ELSE <<s[i]>> \o EscapeFrom(s, i + 1)

\* changelog.toString().replace(/([^\\])>/g, '$1\\>')
EscapeGt(s) == EscapeFrom(s, 1)

\* posix.join('using-npm', 'changelog')
ChangelogContentPath == Join(<< <<"using-npm">>, <<"changelog">> >>)

ChangelogLeaf_plainConcat(url, contentPath) ==
  [title |-> <<"Changelog">>, url |-> url \o contentPath,
   description |-> <<"Changelog notes for each version">>, children |-> Undef]

\* { title, url: `${release.url}/${contentPath}`, description: ... }
ChangelogLeaf(url, contentPath) ==
  [title |-> <<"Changelog">>, url |-> url \o <<SLASH>> \o contentPath,
   description |-> <<"Changelog notes for each version">>, children |-> Undef]

\* ------------------------------------------------------------------------
\* The environment of one import: what the remote and the archive may hold
\* ------------------------------------------------------------------------

\* largest number of files an archive or a remote tree holds
MaxFiles == 2

\* join(contentPath, release.id)
Cwd == <<"content", SLASH, "v9">>

\* join('docs', 'content')
BuiltPath == Join(<< <<"docs">>, <<"content">> >>)

\* join('docs', 'lib', 'content')
SrcPath == Join(<< <<"docs">>, <<"lib">>, <<"content">> >>)

NavFile == <<"nav.yml">>

IndexFile == <<"index.mdx">>

\* documentation files, by their path below the content directory
FilePool ==
  << <<"commands", SLASH, "npm.md">>,
     <<"using-npm", SLASH, "config.md">>,
     <<"intro.md">>,
     <<"commands", SLASH, "sub", SLASH, "x.md">> >>

\* the file lists: the files of FilePool at the positions of a set of at
\* most MaxFiles positions, in pool order
RECURSIVE PickFrom(_, _, _)
PickFrom(pool, picked, i) ==
  IF i > Len(pool) THEN <<>>
  ELSE (IF i \in picked THEN <<pool[i]>> ELSE <<>>) \o PickFrom(pool, picked, i + 1)

FileLists ==
  {PickFrom(FilePool, S, 1) :
     S \in {T \in SUBSET (1..Len(FilePool)) : Cardinality(T) <= MaxFiles}}

\* an archive: a wrapper directory holding the built documentation and, or
\* not, a file outside of it
Wrapped(f) == <<"pkg">> \o <<SLASH>> \o BuiltPath \o <<SLASH>> \o f

Readme == <<"pkg", SLASH, "README.md">>

Archives ==
  {[i \in 1..Len(fl) |-> Wrapped(fl[i])] : fl \in FileLists}
  \cup {<<Readme>> \o [i \in 1..Len(fl) |-> Wrapped(fl[i])] :
          fl \in {l \in FileLists : Len(l) < MaxFiles}}

\* the parsed navigation descriptions the remote may serve
NavDocs ==
  { Arr(<< Node(<<"Commands">>, <<SLASH, "commands">>,
                Arr(<< Node(<<"npm">>, <<SLASH, "commands", SLASH, "npm">>, Undef) >>)),
           Node(<<"Using">>, <<SLASH, "using-npm">>,
                Arr(<< Node(<<"config">>, <<SLASH, "using-npm", SLASH, "config">>, Undef) >>)) >>),
    Arr(<< Node(<<"Using">>, <<SLASH, "using-npm">>, Arr(<<>>)),
           Node(<<"Commands">>, <<SLASH, "commands">>, Undef) >>),
    Arr(<< Node(<<"Using">>, <<SLASH, "using-npm">>, Null),
           Node(<<"Home">>, <<SLASH, ".">>, Arr(<<>>)) >>),
    Null }

\* the base navigation lists the caller may pass
BaseNavs ==
  { << Node(<<"v8">>, <<SLASH, "cli", SLASH, "v8">>, Undef),
       Node(<<"v9">>, <<SLASH, "cli", SLASH, "v9">>, Undef) >>,
    << Node(<<"v8">>, <<SLASH, "cli", SLASH, "v8">>, Undef) >> }

\* the listings of a directory of the remote tree: entries of name and sha
Listings ==
  { << [name |-> <<"lib">>, sha |-> "fff000"], [name |-> <<"content">>, sha |-> "abc123"] >>,
    << [name |-> <<"lib">>, sha |-> "fff000"] >> }

\* ------------------------------------------------------------------------
\* State
\* ------------------------------------------------------------------------

VARIABLES
  rel,        \* _release, the caller's record
  opts,       \* { force, prerelease }
  baseNav,    \* the caller's base navigation list
  pc,         \* where unpackRelease stands
  outcome,    \* "running", "nothing" (skip), "thrown" or "returned"
  err,        \* the error thrown
  release,    \* the copy resolveRelease makes and unpackRelease fills
  fs,         \* the output directory: exists, files written, dirs made
  fsOps,      \* filesystem operations of this run (rm, mkdir, writeFile)
  nav,        \* the tree getNav built: { path, children }
  tarPending, \* archive entries the extractor has not processed yet
  result,     \* the list of paths the extraction strategy hands back
  mkPending,  \* unpackTree: directories whose mkdir is in flight
  tasks,      \* unpackTree: per file, "fetch", "write" or "done"
  treeFiles,  \* unpackTree: the files enumerated
  files,      \* the file list unpackRelease derives the index dirs from
  dirs,       \* the index directories
  idxPending, \* positions of dirs whose index write is in flight
  idxDone,    \* positions of dirs whose index write has completed
  ret,        \* the value returned
  probed,     \* what the probes of the two source candidates answered
  sha,        \* unpackTree: the content-address found for dir
  fn          \* a function under test, its input and its output

vars ==
  <<rel, opts, baseNav, pc, outcome, err, release, fs, fsOps, nav, tarPending,
    result, mkPending, tasks, treeFiles, files, dirs, idxPending, idxDone,
    ret, probed, sha, fn>>

inputs == <<rel, opts, baseNav>>

tarVars == <<tarPending>>

treeVars == <<mkPending, tasks, treeFiles>>

idxVars == <<files, dirs, idxPending, idxDone>>

\* null, among paths
Nothing == <<"(null)">>

NoNav == [path |-> Nothing, children |-> Undef]

NoRelease == [resolved |-> Unset, spec |-> Unset, src |-> Nothing]

\* no probe made yet
NoProbe == [lib |-> "unprobed", built |-> "unprobed"]

\* no content-address looked up yet
NoSha == "none"

\* nothing returned
NoRet == [release |-> NoRelease, nav |-> Undef]

\* the state of the pipeline before any step of it
Fresh ==
  /\ outcome = "running"
  /\ err = "none"
  /\ release = NoRelease
  /\ fsOps = 0
  /\ nav = NoNav
  /\ tarPending = <<>>
  /\ result = <<>>
  /\ mkPending = {}
  /\ tasks = <<>>
  /\ treeFiles = <<>>
  /\ files = <<>>
  /\ dirs = <<>>
  /\ idxPending = {}
  /\ idxDone = {}
  /\ ret = NoRet
  /\ probed = NoProbe
  /\ sha = NoSha

Init ==
  /\ rel \in Releases
  /\ opts \in Options
  /\ baseNav \in BaseNavs
  /\ fs \in InitialFs
  /\ pc = "resolve"
  /\ fn = [op |-> "none"]
  /\ Fresh

\* unpackRelease ends: return undefined, or throw e
Skip ==
  /\ pc' = "done"
  /\ outcome' = "nothing"
  /\ UNCHANGED err

Throw(e) ==
  /\ pc' = "done"
  /\ outcome' = "thrown"
  /\ err' = e

Goto(p) ==
  /\ pc' = p
  /\ UNCHANGED <<outcome, err>>

\* ------------------------------------------------------------------------
\* unpackRelease, up to the extraction
\* ------------------------------------------------------------------------

Resolved_fromManifest(r, latest) ==
  [resolved |-> r.manifest._resolved, spec |-> r.manifest._from, src |-> Nothing]

\* the release resolveRelease builds: resolved from the branch's latest sha,
\* or resolved and spec from the manifest
Resolved(r, latest) ==
  IF r.useBranch
    THEN [resolved |-> latest, spec |-> Unset, src |-> Nothing]
    ELSE [resolved |-> r.manifest._resolved, spec |-> r.manifest._from, src |-> Nothing]

Resolve_inPlace ==
  /\ pc = "resolve"
  /\ \E latest \in Ids :
       IF SkipPrerelease(rel, opts)
         THEN Skip /\ UNCHANGED <<release, rel>>
         ELSE /\ release' = Resolved(rel, latest)
              /\ rel' = [rel EXCEPT !.resolved = release'.resolved,
                                    !.spec = release'.spec]
              /\ IF SkipResolved(release'.resolved, rel.resolved, opts)
                   THEN Skip
                   ELSE Goto("recreate")
  /\ UNCHANGED <<opts, baseNav, probed, sha, fs, fsOps, nav, tarVars, result, treeVars,
                 idxVars, ret, fn>>

Resolve_wipesFirst ==
  /\ pc = "resolve"
  /\ fs' = [exists |-> TRUE, files |-> {}, dirs |-> {}]
  /\ fsOps' = fsOps + 2
  /\ \E latest \in Ids :
       IF SkipPrerelease(rel, opts)
         THEN Skip /\ UNCHANGED release
         ELSE /\ release' = Resolved(rel, latest)
              /\ IF SkipResolved(release'.resolved, rel.resolved, opts)
                   THEN Skip
                   ELSE Goto("probeSrc")
  /\ UNCHANGED <<inputs, probed, sha, nav, tarVars, result, treeVars, idxVars, ret, fn>>

\* resolveRelease, and unpackRelease's return on its null
Resolve ==
  /\ pc = "resolve"
  /\ \E latest \in Ids :
       IF SkipPrerelease(rel, opts)
         THEN Skip /\ UNCHANGED release
         ELSE /\ release' = Resolved(rel, latest)
              /\ IF SkipResolved(release'.resolved, rel.resolved, opts)
                   THEN Skip
                   ELSE Goto("recreate")
  /\ UNCHANGED <<inputs, probed, sha, fs, fsOps, nav, tarVars, result, treeVars, idxVars, ret, fn>>

\* gh.getLatestSha rejects
ResolveFails ==
  /\ pc = "resolve"
  /\ ~SkipPrerelease(rel, opts)
  /\ rel.useBranch
  /\ Throw("RemoteFetchFailed")
  /\ UNCHANGED <<inputs, probed, sha, release, fs, fsOps, nav, tarVars, result, treeVars, idxVars, ret, fn>>

Recreate_noRemove ==
  /\ pc = "recreate"
  /\ fs' = [fs EXCEPT !.exists = TRUE]
  /\ fsOps' = fsOps + 2
  /\ Goto("probeSrc")
  /\ UNCHANGED <<inputs, probed, sha, release, nav, tarVars, result, treeVars, idxVars, ret, fn>>

\* fs.rm(cwd, { force, recursive }).then(() => fs.mkdir(cwd, { recursive }))
Recreate ==
  /\ pc = "recreate"
  /\ fs' = [exists |-> TRUE, files |-> {}, dirs |-> {}]
  /\ fsOps' = fsOps + 2
  /\ Goto("probeSrc")
  /\ UNCHANGED <<inputs, probed, sha, release, nav, tarVars, result, treeVars, idxVars, ret, fn>>

\* gh.pathExists: the path when it exists at the ref, null otherwise
PathExists(exists, path) == IF exists THEN path ELSE Nothing

Coalesce_second(a, b) == IF b # Nothing THEN b ELSE a

\* a ?? b
Coalesce(a, b) == IF a # Nothing THEN a ELSE b

\* what the two probes answered: the second operand of ?? is evaluated, and
\* so the second probe made, only when the first answered null
Probed(lib, built) ==
  [lib   |-> IF lib THEN "yes" ELSE "no",
   built |-> IF lib THEN "unprobed" ELSE IF built THEN "yes" ELSE "no"]

\* release.src = pathExists(srcPath) ?? pathExists(builtPath), or the throw
ProbeSrc ==
  /\ pc = "probeSrc"
  /\ \E lib \in BOOLEAN, built \in BOOLEAN :
       LET src == Coalesce(PathExists(lib, SrcPath), PathExists(built, BuiltPath))
       IN /\ probed' = Probed(lib, built)
          /\ IF src = Nothing
               THEN Throw("SourceDirectoryNotFound") /\ UNCHANGED release
               ELSE Goto("getNav") /\ release' = [release EXCEPT !.src = src]
  /\ UNCHANGED <<inputs, sha, fs, fsOps, nav, tarVars, result, treeVars, idxVars, ret, fn>>

\* getNav on the description found at one of its two places
GetNav ==
  /\ pc = "getNav"
  /\ \E inSrc \in BOOLEAN, doc \in NavDocs :
       LET path == Coalesce(PathExists(inSrc, Join(<<SrcPath, NavFile>>)),
                            PathExists(TRUE, Join(<< <<"docs">>, NavFile >>)))
       IN nav' = getNav(path, doc, RelUrl)
  /\ Goto("extract")
  /\ UNCHANGED <<inputs, probed, sha, release, fs, fsOps, tarVars, result, treeVars, idxVars, ret, fn>>

\* gh.getFile of the description rejects
GetNavFails ==
  /\ pc = "getNav"
  /\ Throw("RemoteFetchFailed")
  /\ UNCHANGED <<inputs, probed, sha, release, fs, fsOps, nav, tarVars, result, treeVars, idxVars, ret, fn>>

\* ------------------------------------------------------------------------
\* unpackTarball
\* ------------------------------------------------------------------------

\* a file below cwd
InCwd(path) == Join(<<Cwd, path>>)

\* pacote.tarball.stream hands over the stream, which is piped into tar.x
TarStart ==
  /\ pc = "extract"
  /\ ~rel.useBranch
  /\ \E a \in Archives : tarPending' = a
  /\ result' = <<>>
  /\ Goto("tarball")
  /\ UNCHANGED <<inputs, probed, sha, release, fs, fsOps, nav, treeVars, idxVars, ret, fn>>

\* the extractor takes its next entry: filter, then strip, transform (which
\* records the path) and the write below cwd.  The extractor runs on its own:
\* nothing in unpackTarball waits for it
TarEntry ==
  /\ tarPending # <<>>
  /\ LET got == TarExtract(Head(tarPending), BuiltPath)
     IN /\ result' = result \o got
        /\ fs' = [fs EXCEPT !.files = @ \cup {InCwd(got[i]) : i \in 1..Len(got)}]
        /\ fsOps' = fsOps + Len(got)
  /\ tarPending' = Tail(tarPending)
  /\ UNCHANGED <<inputs, probed, sha, pc, outcome, err, release, nav, treeVars, idxVars, ret, fn>>

\* stream.on('end', res): the source stream has handed all its bytes to the
\* extractor; unpackTarball returns result
TarEnd ==
  /\ pc = "tarball"
  /\ Goto("index")
  /\ UNCHANGED <<inputs, probed, sha, release, fs, fsOps, nav, tarVars, result, treeVars, idxVars, ret, fn>>

\* stream.on('error', rej)
TarStreamError ==
  /\ pc = "tarball"
  /\ Throw("StreamExtractionFailed")
  /\ UNCHANGED <<inputs, probed, sha, release, fs, fsOps, nav, tarVars, result, treeVars, idxVars, ret, fn>>

\* ------------------------------------------------------------------------
\* unpackTree
\* ------------------------------------------------------------------------

FindName_first(paths, child, i) == IF paths = <<>> THEN 0 ELSE 1

\* paths.find((p) => p.name === child): the first such entry's position, or 0
RECURSIVE FindName(_, _, _)
FindName(paths, child, i) ==
  IF i > Len(paths) THEN 0
  ELSE IF paths[i].name = child THEN i
  ELSE FindName(paths, child, i + 1)

\* the sha of dir: its parent's listing, and the entry named as dir's last
\* segment; a TypeError when there is none
TreeResolve ==
  /\ pc = "extract"
  /\ rel.useBranch
  /\ \E paths \in Listings :
       LET dirParts == Split(release.src)
           child    == Last(dirParts)
           k        == FindName(paths, child, 1)
       IN IF k = 0
            THEN Throw("TypeError") /\ UNCHANGED sha
            ELSE Goto("treeList") /\ sha' = paths[k].sha
  /\ UNCHANGED <<inputs, probed, release, fs, fsOps, nav, tarVars, result, treeVars, idxVars, ret, fn>>

\* the distinct values of a list, in order of first occurrence ([...new Set(l)])
RECURSIVE Distinct(_, _)
Distinct(l, seen) ==
  IF l = <<>> THEN <<>>
  ELSE IF Head(l) \in seen THEN Distinct(Tail(l), seen)
  ELSE <<Head(l)>> \o Distinct(Tail(l), seen \cup {Head(l)})

\* gh.getAllFiles(sha), and the mkdir of every distinct parent directory
TreeList ==
  /\ pc = "treeList"
  /\ \E fl \in FileLists :
       /\ treeFiles' = fl
       /\ mkPending' = {Join(<<Cwd, Dirname(fl[i])>>) : i \in 1..Len(fl)}
  /\ Goto("treeMkdir")
  /\ UNCHANGED <<inputs, probed, sha, release, fs, fsOps, nav, tarVars, result, tasks, idxVars, ret, fn>>

\* one fs.mkdir(d, { recursive: true }) completes
TreeMkdir(d) ==
  /\ d \in mkPending
  /\ mkPending' = mkPending \ {d}
  /\ fs' = [fs EXCEPT !.dirs = @ \cup {d}]
  /\ fsOps' = fsOps + 1
  /\ UNCHANGED <<inputs, probed, sha, pc, outcome, err, release, nav, tarVars, result, tasks,
                 treeFiles, idxVars, ret, fn>>

\* one of them rejects: Promise.all rejects, the other mkdirs go on
TreeMkdirFails(d) ==
  /\ pc = "treeMkdir"
  /\ d \in mkPending
  /\ mkPending' = mkPending \ {d}
  /\ Throw("WriteFailed")
  /\ UNCHANGED <<inputs, probed, sha, release, fs, fsOps, nav, tarVars, result, tasks,
                 treeFiles, idxVars, ret, fn>>

TreeStartFiles_eager ==
  /\ pc = "treeMkdir"
  /\ tasks' = [i \in 1..Len(treeFiles) |-> "fetch"]
  /\ Goto("treeWrite")
  /\ UNCHANGED <<inputs, probed, sha, release, fs, fsOps, nav, tarVars, result, mkPending,
                 treeFiles, idxVars, ret, fn>>

\* Promise.all of the mkdirs resolves; the per-file tasks start
TreeStartFiles ==
  /\ pc = "treeMkdir"
  /\ mkPending = {}
  /\ tasks' = [i \in 1..Len(treeFiles) |-> "fetch"]
  /\ Goto("treeWrite")
  /\ UNCHANGED <<inputs, probed, sha, release, fs, fsOps, nav, tarVars, result, mkPending,
                 treeFiles, idxVars, ret, fn>>

\* gh.getFile({ sha: file.sha }) resolves for file i
TreeFetch(i) ==
  /\ i \in 1..Len(tasks)
  /\ tasks[i] = "fetch"
  /\ tasks' = [tasks EXCEPT ![i] = "write"]
  /\ UNCHANGED <<inputs, probed, sha, pc, outcome, err, release, fs, fsOps, nav, tarVars, result,
                 mkPending, treeFiles, idxVars, ret, fn>>

\* gh.getFile rejects for file i: Promise.all rejects, the other tasks go on
TreeFetchFails(i) ==
  /\ pc = "treeWrite"
  /\ i \in 1..Len(tasks)
  /\ tasks[i] = "fetch"
  /\ tasks' = [tasks EXCEPT ![i] = "done"]
  /\ Throw("RemoteFetchFailed")
  /\ UNCHANGED <<inputs, probed, sha, release, fs, fsOps, nav, tarVars, result, mkPending,
                 treeFiles, idxVars, ret, fn>>

\* fs.writeFile(join(cwd, file.path), ...) completes for file i
TreeWrite(i) ==
  /\ i \in 1..Len(tasks)
  /\ tasks[i] = "write"
  /\ tasks' = [tasks EXCEPT ![i] = "done"]
  /\ fs' = [fs EXCEPT !.files = @ \cup {InCwd(treeFiles[i])}]
  /\ fsOps' = fsOps + 1
  /\ UNCHANGED <<inputs, probed, sha, pc, outcome, err, release, nav, tarVars, result, mkPending,
                 treeFiles, idxVars, ret, fn>>

\* Promise.all of the tasks resolves: return files.map((f) => f.path)
TreeDone ==
  /\ pc = "treeWrite"
  /\ \A i \in 1..Len(tasks) : tasks[i] = "done"
  /\ result' = treeFiles
  /\ Goto("index")
  /\ UNCHANGED <<inputs, probed, sha, release, fs, fsOps, nav, tarVars, treeVars, idxVars, ret, fn>>

\* ------------------------------------------------------------------------
\* unpackRelease: the index documents
\* ------------------------------------------------------------------------

\* nodes.find((c) => posix.basename(c.url) === name): the position, or 0
RECURSIVE FindSection(_, _, _)
FindSection(nodes, name, i) ==
  IF i > Len(nodes) THEN 0
  ELSE IF Basename(nodes[i].url) = name THEN i
  ELSE FindSection(nodes, name, i + 1)

\* whether the lookup of dir's navigation section yields a node: the base
\* list for '', nav.children otherwise (none when it is not an array)
HasSection(dir, n, base) ==
  IF dir = <<>>
    THEN FindSection(base, UrlPrefix, 1) # 0
    ELSE n.children.tag = "array" /\ FindSection(n.children.items, dir, 1) # 0

\* ['', ...new Set(files.map((f) => dirname(f)))]
IndexDirs(fl) == << <<>> >> \o Distinct([i \in 1..Len(fl) |-> Dirname(fl[i])], {})

\* join(dir, 'index.mdx')
IndexPath(dir) == Join(<<dir, IndexFile>>)

\* dirs.map(async (dir) => ...) up to each callback's writeFile: a callback
\* whose section lookup yields nothing throws, which rejects Promise.all,
\* while the writes of the other callbacks are under way
IndexStart ==
  /\ pc = "index"
  /\ files' = result
  /\ dirs' = IndexDirs(result)
  /\ idxPending' = {i \in 1..Len(dirs') : HasSection(dirs'[i], nav, baseNav)}
  /\ IF idxPending' = 1..Len(dirs')
       THEN Goto("indexWait")
       ELSE Throw("TypeError")
  /\ UNCHANGED <<inputs, probed, sha, release, fs, fsOps, nav, tarVars, result, treeVars, idxDone, ret, fn>>

\* one fs.writeFile(join(cwd, path), ...) of an index document completes
IndexWrite(i) ==
  /\ i \in idxPending
  /\ idxPending' = idxPending \ {i}
  /\ idxDone' = idxDone \cup {i}
  /\ fs' = [fs EXCEPT !.files = @ \cup {InCwd(IndexPath(dirs[i]))}]
  /\ fsOps' = fsOps + 1
  /\ UNCHANGED <<inputs, probed, sha, pc, outcome, err, release, nav, tarVars, result, treeVars,
                 files, dirs, ret, fn>>

\* one of them rejects
IndexWriteFails(i) ==
  /\ pc = "indexWait"
  /\ i \in idxPending
  /\ idxPending' = idxPending \ {i}
  /\ Throw("WriteFailed")
  /\ UNCHANGED <<inputs, probed, sha, release, fs, fsOps, nav, tarVars, result, treeVars,
                 files, dirs, idxDone, ret, fn>>

IndexDone_early ==
  /\ pc = "indexWait"
  /\ Goto("changelog")
  /\ UNCHANGED <<inputs, probed, sha, release, fs, fsOps, nav, tarVars, result, treeVars, idxVars, ret, fn>>

\* Promise.all of the index writes resolves
IndexDone ==
  /\ pc = "indexWait"
  /\ idxPending = {}
  /\ Goto("changelog")
  /\ UNCHANGED <<inputs, probed, sha, release, fs, fsOps, nav, tarVars, result, treeVars, idxVars, ret, fn>>

\* ------------------------------------------------------------------------
\* writeChangelog, and unpackRelease's return
\* ------------------------------------------------------------------------

RECURSIVE IsBelow(_, _)
\* whether directory d is an ancestor of path p
IsBelow(p, d) ==
  LET up == Dirname(p)
  IN IF up = d THEN TRUE
     ELSE IF up = p \/ up = <<".">> \/ up = <<SLASH>> THEN FALSE
     ELSE IsBelow(up, d)

\* whether directory d exists: made by mkdir, or holding a file
DirExists(f, d) ==
  \/ f.exists /\ d = Cwd
  \/ d \in f.dirs
  \/ \E p \in f.files : IsBelow(p, d)
  \/ \E p \in f.dirs : IsBelow(p, d)

\* join(cwd, contentPath + '.md')
ChangelogFile == Join(<<Cwd, ChangelogContentPath \o <<".md">> >>)

\* gh.getFile of CHANGELOG.md resolves and the escaped, transformed text is
\* written; the write fails when its directory does not exist
ChangelogWrite ==
  /\ pc = "changelog"
  /\ IF DirExists(fs, Dirname(ChangelogFile))
       THEN /\ fs' = [fs EXCEPT !.files = @ \cup {ChangelogFile}]
            /\ fsOps' = fsOps + 1
            /\ Goto("merge")
       ELSE /\ Throw("WriteFailed")
            /\ UNCHANGED <<fs, fsOps>>
  /\ UNCHANGED <<inputs, probed, sha, release, nav, tarVars, result, treeVars, idxVars, ret, fn>>

\* gh.getFile of CHANGELOG.md rejects
ChangelogFetchFails ==
  /\ pc = "changelog"
  /\ Throw("RemoteFetchFailed")
  /\ UNCHANGED <<inputs, probed, sha, release, fs, fsOps, nav, tarVars, result, treeVars, idxVars, ret, fn>>

\* whether nav.children[nav.children.length - 1].children is an array
CanPush(n) ==
  /\ n.children.tag = "array"
  /\ n.children.items # <<>>
  /\ Last(n.children.items).children.tag = "array"

PushChangelog_first(n, leaf) ==
  [n EXCEPT !.children.items[1].children.items = Append(@, leaf)]

\* nav.children[nav.children.length - 1].children.push(leaf)
PushChangelog(n, leaf) ==
  [n EXCEPT !.children.items[Len(n.children.items)].children.items = Append(@, leaf)]

\* the push onto the last section of nav, a TypeError when it has no array
ChangelogMerge ==
  /\ pc = "merge"
  /\ IF CanPush(nav)
       THEN /\ nav' = PushChangelog(nav, ChangelogLeaf(RelUrl, ChangelogContentPath))
            /\ Goto("return")
       ELSE /\ Throw("TypeError")
            /\ UNCHANGED nav
  /\ UNCHANGED <<inputs, probed, sha, release, fs, fsOps, tarVars, result, treeVars, idxVars, ret, fn>>

\* return { ...release, nav: nav.children }
Return ==
  /\ pc = "return"
  /\ ret' = [release |-> release, nav |-> nav.children]
  /\ pc' = "done"
  /\ outcome' = "returned"
  /\ UNCHANGED <<inputs, probed, sha, err, release, fs, fsOps, nav, tarVars, result, treeVars, idxVars, fn>>

\* ------------------------------------------------------------------------
\* The import of one release
\* ------------------------------------------------------------------------

Next ==
  \/ Resolve
  \/ ResolveFails
  \/ Recreate
  \/ ProbeSrc
  \/ GetNav
  \/ GetNavFails
  \/ TarStart
  \/ TarEntry
  \/ TarEnd
  \/ TarStreamError
  \/ TreeResolve
  \/ TreeList
  \/ \E d \in mkPending : TreeMkdir(d)
  \/ \E d \in mkPending : TreeMkdirFails(d)
  \/ TreeStartFiles
  \/ \E i \in 1..Len(tasks) : TreeFetch(i)
  \/ \E i \in 1..Len(tasks) : TreeFetchFails(i)
  \/ \E i \in 1..Len(tasks) : TreeWrite(i)
  \/ TreeDone
  \/ IndexStart
  \/ \E i \in idxPending : IndexWrite(i)
  \/ \E i \in idxPending : IndexWriteFails(i)
  \/ IndexDone
  \/ ChangelogWrite
  \/ ChangelogFetchFails
  \/ ChangelogMerge
  \/ Return

Spec == Init /\ [][Next]_vars

\* ------------------------------------------------------------------------
\* The functions on their own, over all inputs up to the bounds
\* ------------------------------------------------------------------------

\* no import under way
Idle ==
  /\ rel = CHOOSE r \in Releases : TRUE
  /\ opts = CHOOSE o \in Options : TRUE
  /\ baseNav = <<>>
  /\ fs = [exists |-> FALSE, files |-> {}, dirs |-> {}]
  /\ pc = "idle"
  /\ Fresh

pipeline ==
  <<rel, opts, baseNav, pc, outcome, err, release, fs, fsOps, nav, tarPending,
    result, mkPending, tasks, treeFiles, files, dirs, idxPending, idxDone, ret,
    probed, sha>>

RECURSIVE SeqsUpTo(_, _)
\* the sequences over S of length at most n
SeqsUpTo(S, n) ==
  IF n = 0 THEN {<<>>}
  ELSE LET shorter == SeqsUpTo(S, n - 1)
       IN shorter \cup {Append(q, x) : q \in {r \in shorter : Len(r) = n - 1}, x \in S}

\* -- unpackTarball's filter and strip, on one archive entry ----------------

Segments == {<<"pkg-1.0.0">>, <<"docs">>, <<"content">>, <<"guide">>, <<"intro.md">>, <<>>}

\* entry paths: up to MaxParts segments, glued by the separator
EntryPaths == {Glue(parts) : parts \in SeqsUpTo(Segments, MaxParts) \ {<<>>}}

TargetDirs == {BuiltPath, <<"docs">>}

InitTarball ==
  /\ Idle
  /\ fn = [op |-> "unpackTarball", done |-> FALSE, path |-> <<>>, dir |-> <<>>,
           out |-> <<>>]

\* unpackTarball with target dir on an archive of the one entry path
ApplyTarball ==
  /\ fn.op = "unpackTarball"
  /\ ~fn.done
  /\ \E path \in EntryPaths, dir \in TargetDirs :
       fn' = [fn EXCEPT !.done = TRUE, !.path = path, !.dir = dir,
                        !.out = TarExtract(path, dir)]
  /\ UNCHANGED pipeline

SpecTarball == InitTarball /\ [][ApplyTarball]_vars

\* -- getNav, on one navigation description ---------------------------------

NodeUrls == {<<SLASH, "a">>, <<"b">>}

RECURSIVE Forests(_)
RECURSIVE Trees(_)
\* the lists of nodes with n nodes in all
Forests(n) ==
  IF n = 0 THEN {<<>>}
  ELSE UNION {{<<t>> \o rest : t \in Trees(k), rest \in Forests(n - k)} : k \in 1..n}

\* the nodes with n nodes in all: a node without descendants has its
\* children absent, null or empty
Trees(n) ==
  {Node(<<"t">>, u, c) :
     u \in NodeUrls,
     c \in IF n = 1 THEN {Undef, Null, Arr(<<>>)}
           ELSE {Arr(f) : f \in Forests(n - 1)}}

\* the parsed descriptions: an empty document (null), or a list of nodes
ParsedDocs == {Null} \cup {Arr(f) : f \in UNION {Forests(n) : n \in 0..MaxNodes}}

InitNav ==
  /\ Idle
  /\ fn = [op |-> "getNav", done |-> FALSE, doc |-> Undef, out |-> NoNav]

\* getNav on the parsed description doc
ApplyGetNav ==
  /\ fn.op = "getNav"
  /\ ~fn.done
  /\ \E doc \in ParsedDocs :
       fn' = [fn EXCEPT !.done = TRUE, !.doc = doc,
                        !.out = getNav(NavFile, doc, RelUrl)]
  /\ UNCHANGED pipeline

SpecNav == InitNav /\ [][ApplyGetNav]_vars

\* -- writeChangelog's escape, on one changelog text ------------------------

TextTokens == {"foo", GT, BSL}

Texts == SeqsUpTo(TextTokens, MaxText)

InitEscape ==
  /\ Idle
  /\ fn = [op |-> "escape", done |-> FALSE, text |-> <<>>, out |-> <<>>]

\* the text writeChangelog hands to Transform.sync for the changelog text
ApplyEscape ==
  /\ fn.op = "escape"
  /\ ~fn.done
  /\ \E text \in Texts :
       fn' = [fn EXCEPT !.done = TRUE, !.text = text, !.out = EscapeGt(text)]
  /\ UNCHANGED pipeline

SpecEscape == InitEscape /\ [][ApplyEscape]_vars

\* ------------------------------------------------------------------------
\* Properties
\* ------------------------------------------------------------------------

\* the output directory is as it was before the import
Untouched == fsOps = 0 /\ fs \in InitialFs

\* the Changelog leaf is the last child of the last section of tree n
HasChangelogLast(n) ==
  /\ CanPush(n)
  /\ Last(n.children.items).children.items # <<>>
  /\ Last(Last(n.children.items).children.items).title = <<"Changelog">>

\* every stage of the pipeline has run to its end
PipelineRan ==
  /\ fsOps >= 2
  /\ fs.exists
  /\ release.src # Nothing
  /\ nav.path # Nothing
  /\ dirs # <<>>
  /\ idxDone = 1..Len(dirs)
  /\ ChangelogFile \in fs.files
  /\ HasChangelogLast(nav)

\* C1: when the newly resolved identifier equals the stored one and force is
\* not set, unpackRelease returns nothing, the output directory is neither
\* removed nor created nor written to, and no navigation tree is built or
\* changed (the caller's base list included).
C1_UnchangedIsNoOp ==
  (pc # "resolve" /\ release.resolved = rel.resolved /\ ~opts.force)
    => /\ pc = "done"
       /\ outcome = "nothing"
       /\ ret = NoRet
       /\ Untouched
       /\ nav = NoNav
       /\ baseNav \in BaseNavs

C1_Witness ==
  /\ outcome = "nothing"
  /\ ~rel.prerelease
  /\ release.resolved = rel.resolved
  /\ ~opts.force
  /\ Stale \in fs.files

\* C2, as stated: with force set unpackRelease never takes the skip path.
C2_ForceNeverSkips == opts.force => outcome # "nothing"

\* C2, amended: with force set the only skip is the prerelease gate (release
\* flagged prerelease, caller not opted in); matching identifiers never skip,
\* and a forced run that returns has run every stage of the pipeline.
C2_ForceSkipsOnlyPrerelease ==
  opts.force =>
    /\ outcome = "nothing" => (rel.prerelease /\ ~opts.prerelease)
    /\ (pc \notin {"resolve", "recreate"} /\ ~(rel.prerelease /\ ~opts.prerelease))
         => (fsOps >= 2 \/ (outcome = "thrown" /\ err = "RemoteFetchFailed"))
    /\ outcome = "returned" => PipelineRan

C2_Witness ==
  /\ opts.force
  /\ release.resolved = rel.resolved
  /\ outcome = "returned"
  /\ PipelineRan

\* C3: a release flagged prerelease is skipped, with no filesystem operation,
\* whenever the caller has not opted in, whatever the identifiers, useBranch
\* and force are; when the caller has opted in, a skip is never due to the
\* flag: it is the skip of matching identifiers without force.
C3_PrereleaseGate ==
  /\ (rel.prerelease /\ ~opts.prerelease /\ pc # "resolve")
       => (pc = "done" /\ outcome = "nothing" /\ ret = NoRet /\ Untouched
           /\ release = NoRelease)
  /\ (rel.prerelease /\ opts.prerelease /\ outcome = "nothing")
       => (release.resolved = rel.resolved /\ ~opts.force)

C3_Witness ==
  /\ rel.prerelease
  /\ ~opts.prerelease
  /\ opts.force
  /\ rel.useBranch
  /\ outcome = "nothing"

\* what C4 expects of one entry: its path without the wrapper segment and
\* dir's segments when the segments after the wrapper are dir's, nothing
\* otherwise
UnderDir(path, dir) ==
  LET parts == Split(path)
      d     == Split(dir)
  IN /\ Len(parts) >= Len(d) + 1
     /\ \A k \in 1..Len(d) : parts[k + 1] = d[k]

BelowDir(path, dir) ==
  LET parts == Split(path)
  IN Glue(SubSeq(parts, Len(Split(dir)) + 2, Len(parts)))

\* C4: an archive entry is extracted iff its segments after the one wrapper
\* segment are dir's components; any other entry (shorter ones included) is
\* dropped without error; a returned path is the entry path without the
\* wrapper segment and the dir prefix.
C4_FilterAndStrip ==
  (fn.op = "unpackTarball" /\ fn.done) =>
    /\ UnderDir(fn.path, fn.dir) => fn.out = <<BelowDir(fn.path, fn.dir)>>
    /\ ~UnderDir(fn.path, fn.dir) => fn.out = <<>>

C4_Witness ==
  /\ fn.op = "unpackTarball"
  /\ fn.done
  /\ fn.path = <<"pkg-1.0.0", SLASH, "docs", SLASH, "content", SLASH, "guide", SLASH, "intro.md">>
  /\ fn.dir = <<"docs", SLASH, "content">>
  /\ fn.out = << <<"guide", SLASH, "intro.md">> >>

RECURSIVE Rewritten(_, _, _)
\* after is before with every url prefixed once and the shape kept: arrays
\* keep their length and order, an absent or null children field is absent
Rewritten(before, after, url) ==
  IF before.tag = "array"
    THEN /\ after.tag = "array"
         /\ Len(after.items) = Len(before.items)
         /\ \A i \in 1..Len(before.items) :
              /\ after.items[i].url = url \o before.items[i].url
              /\ after.items[i].title = before.items[i].title
              /\ Rewritten(before.items[i].children, after.items[i].children, url)
    ELSE after = Undef

RECURSIVE Depth(_)
Depth(c) ==
  IF c.tag # "array" \/ c.items = <<>> THEN 0
  ELSE 1 + Depth(c.items[1].children)

\* C5: getNav prefixes the url of every node of the description, at every
\* depth, with release.url exactly once, and keeps the number and order of
\* children of every node; absent children stay absent, empty ones empty.
C5_RewriteTotal ==
  (fn.op = "getNav" /\ fn.done) => Rewritten(fn.doc, fn.out.children, RelUrl)

C5_Witness ==
  /\ fn.op = "getNav"
  /\ fn.done
  /\ Depth(fn.doc) >= 3
  /\ fn.out.children.items[1].children.items[1].children.items[1].url
       = RelUrl \o <<SLASH, "a">>
  /\ fn.doc.items[1].children.items[1].children.items[1].children = Arr(<<>>)
  /\ fn.out.children.items[1].children.items[1].children.items[1].children = Arr(<<>>)

\* C6, as stated: after a successful unpackRelease the directories that got
\* an index document are '' and the dirname of every file of the extracted
\* list, none left out, and no index path was written twice.
C6_IndexCoverage ==
  outcome = "returned" =>
    /\ {dirs[i] : i \in idxDone} = {<<>>} \cup {Dirname(files[k]) : k \in 1..Len(files)}
    /\ \A i \in idxDone, j \in idxDone : i # j => IndexPath(dirs[i]) # IndexPath(dirs[j])

\* C7: the merge adds one child, titled Changelog, at the end of the last
\* top-level section and changes nothing else of the tree; no other step
\* changes the tree once built; and what unpackRelease returns as nav is the
\* tree after the merge.
C7_ChangelogAppended ==
  [][ /\ (pc = "merge" /\ pc' = "return") =>
           LET b == nav.children.items
               a == nav'.children.items
               n == Len(b)
           IN /\ nav'.path = nav.path
              /\ nav'.children.tag = "array"
              /\ Len(a) = n
              /\ \A i \in 1..(n - 1) : a[i] = b[i]
              /\ a[n].title = b[n].title
              /\ a[n].url = b[n].url
              /\ Len(a[n].children.items) = Len(b[n].children.items) + 1
              /\ Front(a[n].children.items) = b[n].children.items
              /\ Last(a[n].children.items).title = <<"Changelog">>
      /\ (nav' # nav) => (pc = "getNav" \/ pc = "merge")
      /\ (outcome' = "returned") => (ret'.nav = nav'.children /\ HasChangelogLast(nav'))
    ]_vars

C7_Witness ==
  /\ outcome = "returned"
  /\ ret.nav = nav.children
  /\ Len(ret.nav.items) = 2
  /\ Len(ret.nav.items[2].children.items) = 2
  /\ ret.nav.items[2].children.items[2].title = <<"Changelog">>

\* the Changelog leaf of a merged tree
LeafOf(n) == Last(Last(n.children.items).children.items)

\* C8, as stated: the leaf's url is release.url followed by contentPath.
C8_LeafUrlPlain ==
  outcome = "returned" => LeafOf(nav).url = RelUrl \o ChangelogContentPath

\* C8, amended: the leaf's url is release.url, a separator, and contentPath
\* (which has no leading separator); its description is the fixed one.
C8_LeafUrl ==
  outcome = "returned" =>
    /\ LeafOf(nav).url = RelUrl \o <<SLASH>> \o ChangelogContentPath
    /\ LeafOf(nav).description = <<"Changelog notes for each version">>

C8_Witness ==
  /\ outcome = "returned"
  /\ LeafOf(nav).url = <<SLASH, "cli", SLASH, "v9", SLASH, "using-npm", SLASH, "changelog">>

RECURSIVE EveryGtEscaped(_, _)
\* s with a backslash put before every ">" that no backslash precedes
EveryGtEscaped(s, i) ==
  IF i > Len(s) THEN <<>>
  ELSE (IF s[i] = GT /\ (i = 1 \/ s[i - 1] # BSL) THEN <<BSL, GT>> ELSE <<s[i]>>)
       \o EveryGtEscaped(s, i + 1)

\* C9, as stated: the escape puts a backslash before every ">" that is not
\* preceded by one and leaves the rest of the text as it is, a ">" at the
\* start of the text and runs of ">" included.
C9_EscapesEveryGt ==
  (fn.op = "escape" /\ fn.done) => fn.out = EveryGtEscaped(fn.text, 1)

\* C10, as stated: unpackRelease returns nothing on a skip, throws on a fatal
\* condition without cleaning the output directory up, or returns the release
\* with nav once the extraction, every index write and the changelog merge
\* have completed.
C10_ThreeOutcomes ==
  /\ (pc = "done") <=> (outcome \in {"nothing", "thrown", "returned"})
  /\ outcome = "nothing" => (ret = NoRet /\ Untouched)
  /\ outcome = "thrown" => (ret = NoRet /\ err # "none" /\ (fsOps > 0 => fs.exists))
  /\ outcome = "returned" =>
       /\ ret = [release |-> release, nav |-> nav.children]
       /\ tarPending = <<>>
       /\ \A i \in 1..Len(tasks) : tasks[i] = "done"
       /\ \A k \in 1..Len(result) : InCwd(result[k]) \in fs.files
       /\ PipelineRan

\* C11: the skip decision of resolveRelease (prerelease check, resolution,
\* comparison of the identifiers) is complete before the output directory is
\* removed or created: while it is being taken nothing has touched the
\* filesystem, and every step that touches it is taken by a run the gate has
\* let through.
C11_GateBeforeWipe ==
  [][ /\ (pc = "resolve") => Untouched
      /\ (fs' # fs \/ fsOps' # fsOps) =>
           /\ pc # "resolve"
           /\ release.resolved # Unset
           /\ ~(rel.prerelease /\ ~opts.prerelease)
           /\ (release.resolved # rel.resolved \/ opts.force)
    ]_vars

C11_Witness ==
  /\ pc = "probeSrc"
  /\ fsOps = 2
  /\ fs = [exists |-> TRUE, files |-> {}, dirs |-> {}]
  /\ release.resolved = rel.resolved
  /\ opts.force

\* the files a run leaves: what the extraction recorded, the index
\* documents, and the changelog document
FilesOfRun ==
  {InCwd(result[k]) : k \in 1..Len(result)}
    \cup {InCwd(IndexPath(dirs[i])) : i \in 1..Len(dirs)}
    \cup {ChangelogFile}

\* C12: a run that is not skipped removes the output directory and creates
\* it before it writes anything, so that no file of an earlier run is there
\* once it has touched the directory, and after a successful run the
\* directory holds the extracted files, the index documents and the
\* changelog document of this run and nothing else.
C12_StartsClean ==
  /\ fsOps > 0 => (fsOps >= 2 /\ fs.exists /\ Stale \notin fs.files)
  /\ fs \notin InitialFs => fsOps >= 2
  /\ outcome = "returned" => fs.files = FilesOfRun

C12_Witness ==
  /\ outcome = "returned"
  /\ Stale \notin fs.files
  /\ InCwd(<<"using-npm", SLASH, "config.md">>) \in fs.files
  /\ InCwd(IndexFile) \in fs.files
  /\ ChangelogFile \in fs.files
  /\ Cardinality(fs.files) = 4

\* the distinct parent directories of the enumerated files, below cwd
TreeDirs == {Join(<<Cwd, Dirname(treeFiles[i])>>) : i \in 1..Len(treeFiles)}

\* unpackTree has handed its list back
TreeReturned ==
  rel.useBranch /\ (pc \in {"index", "indexWait", "changelog", "merge", "return"}
                      \/ outcome = "returned")

\* C13: in unpackTree no file task starts, and so no file is written, before
\* the creation of every distinct parent directory of the file list has
\* completed, however the tasks interleave; the directories created are the
\* distinct join(cwd, dirname(path)) and no other; the list handed back is
\* the enumerated paths in their order.
C13_DirsBeforeWrites ==
  rel.useBranch =>
    /\ fs.dirs \subseteq TreeDirs
    /\ (tasks # <<>> \/ \E i \in 1..Len(treeFiles) : InCwd(treeFiles[i]) \in fs.files)
         => (mkPending = {} /\ fs.dirs = TreeDirs)
    /\ TreeReturned =>
         /\ result = treeFiles
         /\ \A i \in 1..Len(treeFiles) : InCwd(treeFiles[i]) \in fs.files

C13_Witness ==
  /\ pc = "treeWrite"
  /\ treeFiles = << <<"commands", SLASH, "npm.md">>, <<"using-npm", SLASH, "config.md">> >>
  /\ fs.dirs = {Cwd \o <<SLASH, "commands">>, Cwd \o <<SLASH, "using-npm">>}
  /\ tasks = <<"fetch", "done">>
  /\ InCwd(treeFiles[2]) \in fs.files

\* C14: writeChangelog starts, and so changes the tree, only once every
\* index task has made its lookup and completed its write: while an index
\* task is under way the tree has no Changelog child, and from the start of
\* writeChangelog on no index task is pending.
C14_MergeAfterIndexes ==
  /\ (pc \in {"index", "indexWait"} \/ idxPending # {}) => ~HasChangelogLast(nav)
  /\ (pc \in {"changelog", "merge", "return"} \/ outcome = "returned"
        \/ ChangelogFile \in fs.files \/ HasChangelogLast(nav))
       => (dirs # <<>> /\ idxPending = {} /\ idxDone = 1..Len(dirs))

C14_Witness ==
  /\ outcome = "returned"
  /\ Len(dirs) = 3
  /\ idxDone = {1, 2, 3}
  /\ HasChangelogLast(nav)

\* C15: docs/lib/content is probed first and docs/content second; release.src
\* is the first of the two that exists, the second being used only when the
\* first does not exist; when neither exists unpackRelease throws before the
\* navigation description is fetched and before anything is extracted or
\* written.
C15_SourceProbe ==
  /\ probed.lib = "yes" => (release.src = SrcPath /\ probed.built = "unprobed")
  /\ (probed.lib = "no" /\ probed.built = "yes") => release.src = BuiltPath
  /\ release.src = BuiltPath => probed.lib = "no"
  /\ release.src = Nothing => (nav = NoNav /\ pc \notin {"getNav", "extract"})
  /\ (probed.lib = "no" /\ probed.built = "no") =>
       /\ pc = "done"
       /\ outcome = "thrown"
       /\ err = "SourceDirectoryNotFound"
       /\ release.src = Nothing
       /\ nav = NoNav
       /\ fs = [exists |-> TRUE, files |-> {}, dirs |-> {}]
       /\ fsOps = 2
       /\ result = <<>>
       /\ ret = NoRet

C15_Witness ==
  /\ probed = [lib |-> "no", built |-> "yes"]
  /\ release.src = BuiltPath
  /\ outcome = "returned"

\* C16: the content-address unpackTree enumerates is the one of the entry of
\* the parent listing named as dir's final segment, never another entry's;
\* when the listing has no such entry unpackTree throws before it enumerates
\* the files, creates a directory or writes a file.
C16_ShaOfNamedEntry ==
  rel.useBranch =>
    /\ sha # NoSha =>
         \E paths \in Listings : \E k \in 1..Len(paths) :
           /\ paths[k].name = Last(Split(release.src))
           /\ paths[k].sha = sha
    /\ pc \in {"treeList", "treeMkdir", "treeWrite"} => sha # NoSha
    /\ sha = NoSha =>
         /\ treeFiles = <<>>
         /\ mkPending = {}
         /\ tasks = <<>>
         /\ fs.dirs = {}
         /\ fs.files \subseteq {Stale}
         /\ pc \notin {"index", "indexWait", "changelog", "merge", "return"}
         /\ outcome # "returned"

C16_Witness ==
  /\ rel.useBranch
  /\ release.src = SrcPath
  /\ sha = "abc123"
  /\ pc = "treeWrite"
  /\ treeFiles # <<>>

\* where unpackTree stands, and where unpackTarball does
TreeSteps == {"treeList", "treeMkdir", "treeWrite"}

\* the release after resolveRelease has resolved it
IsResolved ==
  /\ pc # "resolve"
  /\ ~(rel.prerelease /\ ~opts.prerelease)
  /\ ~(outcome = "thrown" /\ fsOps = 0)

\* the one strategy of the run, and the fields resolveRelease sets
OneStrategy ==
  IF rel.useBranch
    THEN /\ pc # "tarball"
         /\ tarPending = <<>>
         /\ IsResolved => (release.resolved \in Ids /\ release.spec = Unset)
    ELSE /\ pc \notin TreeSteps
         /\ sha = NoSha
         /\ treeFiles = <<>> /\ tasks = <<>> /\ mkPending = {}
         /\ IsResolved => /\ release.resolved = rel.manifest._resolved
                           /\ release.spec = rel.manifest._from

\* the extraction is entered and left through the strategy of useBranch
StrategyStep ==
  /\ (pc = "extract" /\ pc' # "extract") =>
       pc' \in (IF rel.useBranch THEN {"treeList", "done"} ELSE {"tarball"})
  /\ (pc # "index" /\ pc' = "index") =>
       pc = (IF rel.useBranch THEN "treeWrite" ELSE "tarball")

\* C17: a run that is not skipped executes one extraction strategy, the one
\* useBranch selects: unpackTree and never the archive when it is set,
\* unpackTarball and never the tree enumeration otherwise; resolveRelease
\* sets resolved from the branch and leaves spec unset when it is set, and
\* sets both from the manifest otherwise.
C17_StrategyByUseBranch == []OneStrategy /\ [][StrategyStep]_vars

C17_Witness ==
  /\ rel.useBranch
  /\ outcome = "returned"
  /\ release.resolved = "sha2"
  /\ release.spec = Unset
  /\ sha = "abc123"
  /\ treeFiles # <<>>
  /\ tarPending = <<>>

\* C18, as stated: when unpackTarball's promise has resolved every archive
\* entry has been processed by the extractor (recorded in the list when it
\* passes the filter, and written), whenever the end of the source stream
\* comes.
C18_ResolvedMeansExtracted ==
  (~rel.useBranch /\ (pc \in {"index", "indexWait", "changelog", "merge", "return"}
                        \/ outcome = "returned"))
    => tarPending = <<>>

\* C19: no step of unpackRelease changes the caller's record: its stored
\* resolved stays, spec, src and nav stay unset on it, on the skip, failure
\* and success paths; the resolution is written to the copy, which is what
\* is returned.
C19_CallerRecordKept ==
  /\ [](/\ rel \in Releases
        /\ outcome = "returned" =>
             /\ ret.release = release
             /\ ret.release.resolved \in Ids
             /\ ret.release.src \in {SrcPath, BuiltPath})
  /\ [][rel' = rel]_vars

C19_Witness ==
  /\ outcome = "returned"
  /\ rel.resolved = "sha1"
  /\ ret.release.resolved = "sha2"
  /\ rel.spec = Unset
  /\ ret.release.spec = "npm@9"
  /\ rel.src = Unset

=============================================================================
